---- MODULE Spec2Model ----
(***************************************************************************)
(* A model of the synchronisation wrappers of c_src/fine/sync.hpp:         *)
(* fine::Mutex, fine::SharedMutex and fine::ConditionVariable, each an     *)
(* owning wrapper (std::unique_ptr with a Deleter) around one native       *)
(* handle of the Erlang runtime (ErlNifMutex, ErlNifRWLock, ErlNifCond).   *)
(*                                                                         *)
(* The wrappers keep no lock state of their own: every method forwards to  *)
(* one enif_* call.  The native primitives are modelled by what the        *)
(* comments of sync.hpp say about them (a mutex has at most one holder, a  *)
(* rwlock has readers or one writer, enif_cond_wait unlocks the mutex and  *)
(* blocks in one step and may return without a signal).                    *)
(*                                                                         *)
(* A context is a thread.  pc[t] is the place thread t is at: "idle", the  *)
(* name of the blocking call it is inside, or the access it holds.         *)
(***************************************************************************)
EXTENDS Integers, Sequences, FiniteSets, TLC

\* Number of execution contexts (threads).
NThreads == 3
\* Number of try_lock / try_lock_shared calls recorded in the log `tried'.
MaxTries == 3
\* Number of SharedMutex try_lock / try_lock_shared calls recorded.
MaxRWTries == 2
\* Number of notify_one / notify_all calls made on the ConditionVariable.
MaxNotify == 2
\* Number of spurious wakeups the runtime produces.
MaxSpurious == 1
\* Number of wrapper objects, and of native handles the runtime hands out.
NWrappers == 2
NHandles == 2
\* Number of history-leaving calls the user of a wrapper makes in its life.
MaxUses == 1
\* Number of calls into the pathfind::Map recorded in the log `map_calls'.
MaxCalls == 2
\* Longest data_path and longest map_name map_new is called with.
MaxPathLen == 3
MaxNameLen == 2

Threads == 1..NThreads
Wrappers == 1..NWrappers
Handles == 1..NHandles

VARIABLES
  pc,          \* pc[t]: where context t is
  mutex,       \* the native ErlNifMutex: 0 when unlocked, else the holder
  rw_writer,   \* the native ErlNifRWLock: 0, or the context holding read/write
  rw_readers,  \* the native ErlNifRWLock: the contexts holding read access
  tried,       \* log of the try_lock calls made: who, which, what was returned
  cv_waiters,  \* the native ErlNifCond: the contexts blocked in enif_cond_wait
  flag,        \* the state the paired Mutex protects (the waited-for condition)
  signals,     \* number of notify_one calls made so far
  broadcasts,  \* number of notify_all calls made so far
  spurious,    \* number of spurious wakeups so far
  script,      \* script[t]: the calls context t has still to make, when scripted
  obj,         \* obj[w]: "none", the class of the live wrapper w, or "destroyed"
  m_handle,    \* m_handle[w]: the unique_ptr of wrapper w: a handle, or 0 (null)
  hkind,       \* hkind[h]: "none", or the native type handle h was created as
  destroyed,   \* destroyed[h]: how many times enif_*_destroy was called on h
  owned,       \* the handles the caller is responsible for destroying
  ptrs,        \* the raw handle values the caller has got hold of
  adopted,     \* the handles a wrapper adopted from the caller that owned them
  aliased,     \* the handles a wrapper adopted while the caller did not own them
  err,         \* err[w]: "none", or what() of the exception constructor w threw
  creates,     \* number of enif_*_create calls made so far
  hname,       \* hname[h]: the debug name handle h was created with (<<>>: none)
  adt_loaded,  \* the pathfind::Map: the ADT tiles (x, y) it has loaded
  map_calls,   \* log of the calls the NIFs made into the pathfind::Map
  nif_result,  \* what the last NIF call returned or raised
  data_path,   \* the data_path map_new is called with (a sequence of characters)
  map_name,    \* the map_name map_new is called with (a sequence of characters)
  resource     \* the Map resource map_new made: <<>>, or <<data_path, map_name>>

rwvars == <<rw_writer, rw_readers>>
cvvars == <<cv_waiters, flag, signals, broadcasts, spurious>>
usevars == <<pc, mutex, rwvars, tried, cvvars, script>>
ctorvars == <<err, creates, hname>>
ownvars == <<obj, m_handle, hkind, destroyed, owned, ptrs, adopted, aliased, ctorvars>>
mapnewvars == <<data_path, map_name, resource>>
nifvars == <<adt_loaded, map_calls, nif_result, mapnewvars>>
vars == <<usevars, ownvars, nifvars>>

Goto(t, where) == pc' = [pc EXCEPT ![t] = where]

Logged(t, op, ok) == [ctx |-> t, op |-> op, ok |-> ok]

(***************************************************************************)
(* fine::Mutex                                                             *)
(***************************************************************************)

\* enif_mutex_trylock: 0 when the mutex was free (and is now locked by the
\* caller), EBUSY (16) when it is locked.
enif_mutex_trylock_rc == IF mutex = 0 THEN 0 ELSE 16

\* enif_mutex_lock keeps its caller blocked while the mutex is locked.
enif_mutex_lock_blocks == mutex # 0

\* The places where a context holds the Mutex: after lock() or a successful
\* try_lock(), and after either form of ConditionVariable::wait returned.
Holding == {"holds_mutex", "wait:returned", "wait_pred:returned"}

\* Mutex::lock(), the call: the context enters enif_mutex_lock.
Mutex_lock_call(t) ==
  /\ pc[t] = "idle"
  /\ Goto(t, "Mutex::lock")
  /\ UNCHANGED <<mutex, rwvars, tried, cvvars>>

\* A faulty lock(): it returns without waiting for the mutex to be free.
Mutex_lock_nowait(t) ==
  /\ pc[t] = "Mutex::lock"
  /\ mutex' = t
  /\ Goto(t, "holds_mutex")
  /\ UNCHANGED <<rwvars, tried, cvvars>>

\* Mutex::lock(), the return: enif_mutex_lock returns once the mutex has
\* been locked by the caller; until then the caller stays blocked.
Mutex_lock(t) ==
  /\ pc[t] = "Mutex::lock"
  /\ ~enif_mutex_lock_blocks
  /\ mutex' = t
  /\ Goto(t, "holds_mutex")
  /\ UNCHANGED <<rwvars, tried, cvvars>>

\* A faulty unlock(): the native mutex stays locked.
Mutex_unlock_keeps(t) ==
  /\ pc[t] \in Holding
  /\ Goto(t, "idle")
  /\ UNCHANGED <<mutex, rwvars, tried, cvvars>>

\* Mutex::unlock(): the mutex must be locked by the caller.
Mutex_unlock(t) ==
  /\ pc[t] \in Holding
  /\ mutex' = 0
  /\ Goto(t, "idle")
  /\ UNCHANGED <<rwvars, tried, cvvars>>

\* A faulty try_lock(): the comparison with 0 is the wrong way round.
Mutex_try_lock_returns_inverted(rc) == rc # 0

\* What Mutex::try_lock() returns for the return code of enif_mutex_trylock.
Mutex_try_lock_returns(rc) == rc = 0

\* Mutex::try_lock(): one call of enif_mutex_trylock, never blocks.  The
\* caller acts on the value returned: on true it is in the locked region,
\* on false it goes on without the lock.
\* (faulty variant: try_lock forwards to enif_mutex_lock)
Mutex_try_lock_blocking(t) == Mutex_lock_call(t)

Mutex_try_lock(t) ==
  /\ pc[t] = "idle"
  /\ Len(tried) < MaxTries
  /\ LET rc == enif_mutex_trylock_rc
         ok == Mutex_try_lock_returns(rc)
     IN /\ mutex' = IF rc = 0 THEN t ELSE mutex
        /\ Goto(t, IF ok THEN "holds_mutex" ELSE "idle")
        /\ tried' = Append(tried, Logged(t, "Mutex::try_lock", ok))
  /\ UNCHANGED <<rwvars, cvvars>>

(***************************************************************************)
(* fine::SharedMutex                                                       *)
(***************************************************************************)

\* enif_rwlock_tryrlock: 0 when read access was granted, EBUSY otherwise.
\* Read access is granted unless a context holds read/write access.
enif_rwlock_tryrlock_rc == IF rw_writer = 0 THEN 0 ELSE 16

\* enif_rwlock_tryrwlock: 0 when read/write access was granted, EBUSY
\* otherwise.  It is granted when the lock has no holder at all.
enif_rwlock_tryrwlock_rc ==
  IF rw_writer = 0 /\ rw_readers = {} THEN 0 ELSE 16

\* enif_rwlock_rlock keeps its caller blocked while the lock is read/write
\* locked.
enif_rwlock_rlock_blocks == rw_writer # 0

\* enif_rwlock_rwlock keeps its caller blocked while the lock has any holder.
enif_rwlock_rwlock_blocks == rw_writer # 0 \/ rw_readers # {}

\* SharedMutex::lock_shared(), the call: the context enters enif_rwlock_rlock.
SharedMutex_lock_shared_call(t) ==
  /\ pc[t] = "idle"
  /\ Goto(t, "SharedMutex::lock_shared")
  /\ UNCHANGED <<mutex, rwvars, tried, cvvars>>

\* A faulty lock_shared(): it returns while a writer holds the lock.
SharedMutex_lock_shared_nowait(t) ==
  /\ pc[t] = "SharedMutex::lock_shared"
  /\ rw_readers' = rw_readers \cup {t}
  /\ Goto(t, "holds_shared")
  /\ UNCHANGED <<mutex, rw_writer, tried, cvvars>>

\* SharedMutex::lock_shared(), the return: blocked until read locked.
SharedMutex_lock_shared(t) ==
  /\ pc[t] = "SharedMutex::lock_shared"
  /\ ~enif_rwlock_rlock_blocks
  /\ rw_readers' = rw_readers \cup {t}
  /\ Goto(t, "holds_shared")
  /\ UNCHANGED <<mutex, rw_writer, tried, cvvars>>

\* SharedMutex::unlock_shared(): must be read locked by the caller.
SharedMutex_unlock_shared(t) ==
  /\ pc[t] = "holds_shared"
  /\ rw_readers' = rw_readers \ {t}
  /\ Goto(t, "idle")
  /\ UNCHANGED <<mutex, rw_writer, tried, cvvars>>

\* SharedMutex::lock(), the call: the context enters enif_rwlock_rwlock.
SharedMutex_lock_call(t) ==
  /\ pc[t] = "idle"
  /\ Goto(t, "SharedMutex::lock")
  /\ UNCHANGED <<mutex, rwvars, tried, cvvars>>

\* SharedMutex::lock(), the return: blocked until read/write locked.
SharedMutex_lock(t) ==
  /\ pc[t] = "SharedMutex::lock"
  /\ ~enif_rwlock_rwlock_blocks
  /\ rw_writer' = t
  /\ Goto(t, "holds_exclusive")
  /\ UNCHANGED <<mutex, rw_readers, tried, cvvars>>

\* SharedMutex::unlock(): must be read/write locked by the caller.
SharedMutex_unlock(t) ==
  /\ pc[t] = "holds_exclusive"
  /\ rw_writer' = 0
  /\ Goto(t, "idle")
  /\ UNCHANGED <<mutex, rw_readers, tried, cvvars>>

\* What SharedMutex::try_lock_shared() returns for enif_rwlock_tryrlock's code.
SharedMutex_try_lock_shared_returns(rc) == rc = 0

\* SharedMutex::try_lock_shared(): one call of enif_rwlock_tryrlock.
SharedMutex_try_lock_shared(t) ==
  /\ pc[t] = "idle"
  /\ Len(tried) < MaxRWTries
  /\ LET rc == enif_rwlock_tryrlock_rc
         ok == SharedMutex_try_lock_shared_returns(rc)
     IN /\ rw_readers' = IF rc = 0 THEN rw_readers \cup {t} ELSE rw_readers
        /\ Goto(t, IF ok THEN "holds_shared" ELSE "idle")
        /\ tried' = Append(tried, Logged(t, "SharedMutex::try_lock_shared", ok))
  /\ UNCHANGED <<mutex, rw_writer, cvvars>>

\* A faulty try_lock(): the comparison with 0 is the wrong way round.
SharedMutex_try_lock_returns_inverted(rc) == rc # 0

\* What SharedMutex::try_lock() returns for enif_rwlock_tryrwlock's code.
SharedMutex_try_lock_returns(rc) == rc = 0

\* SharedMutex::try_lock(): one call of enif_rwlock_tryrwlock.
SharedMutex_try_lock(t) ==
  /\ pc[t] = "idle"
  /\ Len(tried) < MaxRWTries
  /\ LET rc == enif_rwlock_tryrwlock_rc
         ok == SharedMutex_try_lock_returns(rc)
     IN /\ rw_writer' = IF rc = 0 THEN t ELSE rw_writer
        /\ Goto(t, IF ok THEN "holds_exclusive" ELSE "idle")
        /\ tried' = Append(tried, Logged(t, "SharedMutex::try_lock", ok))
  /\ UNCHANGED <<mutex, rw_readers, cvvars>>

(***************************************************************************)
(* fine::ConditionVariable                                                 *)
(***************************************************************************)

\* The place a context blocked at `p' is at once it has been woken.
WokenPc(p) == IF p = "wait:blocked" THEN "wait:woken" ELSE "wait_pred:woken"

\* The contexts of W stop being blocked in enif_cond_wait: each has yet to
\* lock the mutex again before its enif_cond_wait returns.
Wake(W) ==
  /\ cv_waiters' = cv_waiters \ W
  /\ pc' = [t \in Threads |-> IF t \in W THEN WokenPc(pc[t]) ELSE pc[t]]

\* enif_cond_signal: if contexts are waiting on the condition variable, one
\* of them is woken; which one is not specified.
enif_cond_signal ==
  IF cv_waiters = {} THEN UNCHANGED <<cv_waiters, pc>>
  ELSE \E w \in cv_waiters : Wake({w})

\* enif_cond_broadcast: all the contexts waiting are woken.
enif_cond_broadcast == Wake(cv_waiters)

\* A context that is not inside a blocking call can notify.
CanCall(t) == pc[t] = "idle" \/ pc[t] \in Holding

\* The notify calls are counted; the unscripted contexts make MaxNotify.
MayNotify == signals + broadcasts < MaxNotify

\* A faulty notify_one(): it calls enif_cond_broadcast.
ConditionVariable_notify_one_broadcasts(t) ==
  /\ CanCall(t)
  /\ enif_cond_broadcast
  /\ signals' = signals + 1
  /\ UNCHANGED <<mutex, rwvars, tried, flag, broadcasts, spurious>>

\* A faulty notify_one(): it signals nothing.
ConditionVariable_notify_one_dropped(t) ==
  /\ CanCall(t)
  /\ signals' = signals + 1
  /\ UNCHANGED <<pc, cv_waiters, mutex, rwvars, tried, flag, broadcasts, spurious>>

\* ConditionVariable::notify_one(): one call of enif_cond_signal.
ConditionVariable_notify_one(t) ==
  /\ CanCall(t)
  /\ enif_cond_signal
  /\ signals' = signals + 1
  /\ UNCHANGED <<mutex, rwvars, tried, flag, broadcasts, spurious>>

\* ConditionVariable::notify_all(): one call of enif_cond_broadcast.
ConditionVariable_notify_all(t) ==
  /\ CanCall(t)
  /\ enif_cond_broadcast
  /\ broadcasts' = broadcasts + 1
  /\ UNCHANGED <<mutex, rwvars, tried, flag, signals, spurious>>

\* A faulty wait: the caller blocks without the mutex being unlocked.
enif_cond_wait_enter_keeps_mutex(t, blocked) ==
  /\ cv_waiters' = cv_waiters \cup {t}
  /\ Goto(t, blocked)
  /\ UNCHANGED <<mutex, rwvars, tried, flag, signals, broadcasts, spurious>>

\* enif_cond_wait, entered: the mutex is unlocked and the caller becomes a
\* waiter of the condition variable, in one step.
enif_cond_wait_enter(t, blocked) ==
  /\ mutex' = 0
  /\ cv_waiters' = cv_waiters \cup {t}
  /\ Goto(t, blocked)
  /\ UNCHANGED <<rwvars, tried, flag, signals, broadcasts, spurious>>

\* A faulty wait: it returns without locking the mutex again.
enif_cond_wait_leave_unlocked(t, after) ==
  /\ Goto(t, after)
  /\ UNCHANGED <<mutex, rwvars, tried, cvvars>>

\* enif_cond_wait, left: the woken caller locks the same mutex (blocked until
\* it is free) and enif_cond_wait returns.
enif_cond_wait_leave(t, after) ==
  /\ ~enif_mutex_lock_blocks
  /\ mutex' = t
  /\ Goto(t, after)
  /\ UNCHANGED <<rwvars, tried, cvvars>>

\* enif_cond_wait "can return even if no one has signaled or broadcast": the
\* runtime wakes a waiter on its own.
SpuriousWakeup(t) ==
  /\ t \in cv_waiters
  /\ spurious < MaxSpurious
  /\ Wake({t})
  /\ spurious' = spurious + 1
  /\ UNCHANGED <<mutex, rwvars, tried, flag, signals, broadcasts>>

\* (faulty variant: a notification made earlier is remembered, and the wait
\* returns at once)
ConditionVariable_wait_remembers(t) ==
  /\ pc[t] \in Holding
  /\ IF signals + broadcasts > 0
     THEN /\ Goto(t, "wait:returned")
          /\ UNCHANGED <<mutex, rwvars, tried, cvvars>>
     ELSE enif_cond_wait_enter(t, "wait:blocked")

\* ConditionVariable::wait(lock), the call: enif_cond_wait on the lock's
\* Mutex, which the caller holds.
ConditionVariable_wait(t) ==
  /\ pc[t] \in Holding
  /\ enif_cond_wait_enter(t, "wait:blocked")

\* ConditionVariable::wait(lock), the return.
ConditionVariable_wait_return(t) ==
  /\ pc[t] = "wait:woken"
  /\ enif_cond_wait_leave(t, "wait:returned")

\* The predicate the guarded wait is given: [&]{ return flag; }.
pred == flag

\* (faulty variant: do { enif_cond_wait } while (!pred()), the body first)
ConditionVariable_wait_pred_dowhile(t) ==
  /\ pc[t] \in Holding
  /\ Goto(t, "wait_pred:enif_cond_wait")
  /\ UNCHANGED <<mutex, rwvars, tried, cvvars>>

\* ConditionVariable::wait(lock, pred), the call, by a holder of the Mutex.
ConditionVariable_wait_pred(t) ==
  /\ pc[t] \in Holding
  /\ Goto(t, "wait_pred:while")
  /\ UNCHANGED <<mutex, rwvars, tried, cvvars>>

\* while (!pred()): the loop test.  The wait returns when pred() is true.
ConditionVariable_wait_pred_test(t) ==
  /\ pc[t] = "wait_pred:while"
  /\ Goto(t, IF pred THEN "wait_pred:returned" ELSE "wait_pred:enif_cond_wait")
  /\ UNCHANGED <<mutex, rwvars, tried, cvvars>>

\* The loop body, entered: enif_cond_wait(m_handle.get(), *lock.mutex()).
ConditionVariable_wait_pred_body(t) ==
  /\ pc[t] = "wait_pred:enif_cond_wait"
  /\ enif_cond_wait_enter(t, "wait_pred:blocked")

\* A faulty guarded wait: `if' for `while', pred() is not tested again.
WaitPredAfterBody_once == "wait_pred:returned"

\* Where the guarded wait goes when the loop body has returned: back to the
\* loop test.
WaitPredAfterBody == "wait_pred:while"

\* The loop body, left: enif_cond_wait returns with the Mutex locked.
ConditionVariable_wait_pred_body_return(t) ==
  /\ pc[t] = "wait_pred:woken"
  /\ enif_cond_wait_leave(t, WaitPredAfterBody)

\* A holder of the Mutex writes the protected state.
SetFlag(t, v) ==
  /\ pc[t] \in Holding
  /\ flag' = v
  /\ Goto(t, "holds_mutex")
  /\ UNCHANGED <<mutex, rwvars, tried, cv_waiters, signals, broadcasts, spurious>>

(***************************************************************************)
(* Ownership of the native handles.  Each class keeps its handle in a      *)
(* std::unique_ptr<Handle, Deleter> m_handle.                              *)
(***************************************************************************)

\* The native type each class wraps.
HandleType(cls) ==
  CASE cls = "Mutex" -> "ErlNifMutex"
    [] cls = "SharedMutex" -> "ErlNifRWLock"
    [] cls = "ConditionVariable" -> "ErlNifCond"

Live(w) == obj[w] \notin {"none", "destroyed"}

\* enif_mutex_create / enif_rwlock_create / enif_cond_create hand out a
\* handle never handed out before.
Fresh(h) == hkind[h] = "none" /\ \A g \in Handles : g < h => hkind[g] # "none"

\* enif_mutex_destroy / enif_rwlock_destroy / enif_cond_destroy on h.
enif_destroy(h) == destroyed' = [destroyed EXCEPT ![h] = @ + 1]

\* what() of the std::runtime_error a constructor throws when the runtime
\* returned no handle.
CreateError(cls) ==
  CASE cls = "Mutex" -> "failed to create mutex"
    [] cls = "SharedMutex" -> "failed to create rwlock"
    [] cls = "ConditionVariable" -> "failed to create cond"

\* The constructors that create the native primitive.  They make one
\* enif_*_create call, passing `name' (<<>> stands for nullptr).  The runtime
\* returns a handle, or nullptr (0) when it cannot create the primitive.  On
\* nullptr the constructor throws and no object comes into being; otherwise
\* m_handle holds the handle returned.
ConstructorUnchecked(w, cls, name) ==
  /\ obj[w] = "none" /\ err[w] = "none"
  /\ creates' = creates + 1
  /\ \E h \in Handles \cup {0} :
       /\ h # 0 => Fresh(h)
       /\ m_handle' = [m_handle EXCEPT ![w] = h]
       /\ obj' = [obj EXCEPT ![w] = cls]
       /\ IF h = 0
          THEN UNCHANGED <<hkind, hname>>
          ELSE /\ hkind' = [hkind EXCEPT ![h] = HandleType(cls)]
               /\ hname' = [hname EXCEPT ![h] = name]
  /\ UNCHANGED <<err, destroyed, owned, ptrs, adopted, aliased, usevars, nifvars>>

Constructor(w, cls, name) ==
  /\ obj[w] = "none" /\ err[w] = "none"
  /\ creates' = creates + 1
  /\ \E h \in Handles \cup {0} :
       /\ h # 0 => Fresh(h)
       /\ IF h = 0
          THEN /\ err' = [err EXCEPT ![w] = CreateError(cls)]
               /\ UNCHANGED <<obj, m_handle, hkind, hname>>
          ELSE /\ hkind' = [hkind EXCEPT ![h] = HandleType(cls)]
               /\ hname' = [hname EXCEPT ![h] = name]
               /\ m_handle' = [m_handle EXCEPT ![w] = h]
               /\ obj' = [obj EXCEPT ![w] = cls]
               /\ UNCHANGED err
  /\ UNCHANGED <<destroyed, owned, ptrs, adopted, aliased, usevars, nifvars>>

\* The constructors without a name.
Construct(w, cls) == Constructor(w, cls, <<>>)

\* The debug name Mutex(app, type, instance) and SharedMutex(app, type,
\* instance) build in the stringstream: app.type, or app.type[instance] when
\* an instance is given (<<>> stands for std::nullopt).
DebugName(app, type, instance) ==
  IF instance = <<>>
  THEN <<app, ".", type>>
  ELSE <<app, ".", type, "[", instance[1], "]">>

\* The constructors from a handle: m_handle(handle), whatever the pointer
\* passed is: null, a handle the caller owns, or one it merely knows.
Adopt(w, cls, p) ==
  /\ obj[w] = "none" /\ err[w] = "none"
  /\ p # 0 => p \in ptrs /\ hkind[p] = HandleType(cls)
  /\ m_handle' = [m_handle EXCEPT ![w] = p]
  /\ obj' = [obj EXCEPT ![w] = cls]
  /\ owned' = owned \ {p}
  /\ adopted' = IF p \in owned THEN adopted \cup {p} ELSE adopted
  /\ aliased' = IF p # 0 /\ p \notin owned THEN aliased \cup {p} ELSE aliased
  /\ UNCHANGED <<hkind, destroyed, ptrs, usevars, ctorvars, nifvars>>

\* operator Handle *() const &: m_handle.get().  The caller gets the handle
\* value; ownership still belongs to the wrapper.
Get(w, cls) ==
  /\ obj[w] = cls
  /\ ptrs' = ptrs \cup ({m_handle[w]} \ {0})
  /\ UNCHANGED <<obj, m_handle, hkind, destroyed, owned, adopted, aliased, usevars, ctorvars, nifvars>>

\* A faulty extraction: m_handle.get() for m_handle.release().
ReleaseKeepsHandle(w, cls) ==
  /\ obj[w] = cls
  /\ ptrs' = ptrs \cup ({m_handle[w]} \ {0})
  /\ owned' = owned \cup ({m_handle[w]} \ {0})
  /\ UNCHANGED <<obj, m_handle, hkind, destroyed, adopted, aliased, usevars, ctorvars, nifvars>>

\* explicit operator Handle *() &&: m_handle.release().  The wrapper's
\* pointer becomes null and the caller is responsible for the handle.
Release(w, cls) ==
  /\ obj[w] = cls
  /\ m_handle' = [m_handle EXCEPT ![w] = 0]
  /\ ptrs' = ptrs \cup ({m_handle[w]} \ {0})
  /\ owned' = owned \cup ({m_handle[w]} \ {0})
  /\ UNCHANGED <<obj, hkind, destroyed, adopted, aliased, usevars, ctorvars, nifvars>>

\* A faulty destructor: the Deleter does not destroy the handle.
DestructLeaks(w, cls) ==
  /\ obj[w] = cls
  /\ obj' = [obj EXCEPT ![w] = "destroyed"]
  /\ m_handle' = [m_handle EXCEPT ![w] = 0]
  /\ UNCHANGED <<hkind, destroyed, owned, ptrs, adopted, aliased, usevars, ctorvars, nifvars>>

\* The destructor: ~unique_ptr calls the Deleter on a non-null pointer, and
\* the Deleter calls enif_*_destroy.  The object is gone afterwards; its
\* pointer is written 0.
Destruct(w, cls) ==
  /\ obj[w] = cls
  /\ obj' = [obj EXCEPT ![w] = "destroyed"]
  /\ IF m_handle[w] # 0 THEN enif_destroy(m_handle[w]) ELSE UNCHANGED destroyed
  /\ m_handle' = [m_handle EXCEPT ![w] = 0]
  /\ UNCHANGED <<hkind, owned, ptrs, adopted, aliased, usevars, ctorvars, nifvars>>

\* fine::Mutex
Mutex_Mutex(w) == Construct(w, "Mutex")
Mutex_named(w, app, type, instance) ==
  Constructor(w, "Mutex", DebugName(app, type, instance))
Mutex_from_handle(w, p) == Adopt(w, "Mutex", p)
\* (faulty variant: the conversion gives the ownership away)
Mutex_get_releases(w) == Release(w, "Mutex")
Mutex_get(w) == Get(w, "Mutex")
Mutex_release_keeps(w) == ReleaseKeepsHandle(w, "Mutex")
Mutex_release(w) == Release(w, "Mutex")
Mutex_Deleter_leaks(w) == DestructLeaks(w, "Mutex")
Mutex_Deleter(w) == Destruct(w, "Mutex")

\* fine::SharedMutex
SharedMutex_SharedMutex(w) == Construct(w, "SharedMutex")
SharedMutex_named(w, app, type, instance) ==
  Constructor(w, "SharedMutex", DebugName(app, type, instance))
SharedMutex_from_handle(w, p) == Adopt(w, "SharedMutex", p)
SharedMutex_get(w) == Get(w, "SharedMutex")
SharedMutex_release(w) == Release(w, "SharedMutex")
SharedMutex_Deleter(w) == Destruct(w, "SharedMutex")

\* fine::ConditionVariable
ConditionVariable_ConditionVariable(w) == Construct(w, "ConditionVariable")
ConditionVariable_named(w, name) == Constructor(w, "ConditionVariable", name)
ConditionVariable_from_handle(w, p) == Adopt(w, "ConditionVariable", p)
ConditionVariable_get(w) == Get(w, "ConditionVariable")
ConditionVariable_release(w) == Release(w, "ConditionVariable")
ConditionVariable_Deleter(w) == Destruct(w, "ConditionVariable")

\* The caller creates a native primitive itself and owns the handle.
CallerCreate(type) ==
  /\ creates' = creates + 1
  /\ \E h \in Handles :
       /\ Fresh(h)
       /\ hkind' = [hkind EXCEPT ![h] = type]
       /\ owned' = owned \cup {h}
       /\ ptrs' = ptrs \cup {h}
  /\ UNCHANGED <<obj, m_handle, destroyed, adopted, aliased, usevars, err, hname, nifvars>>

\* The caller destroys a handle it is responsible for.
CallerDestroy(h) ==
  /\ h \in owned
  /\ enif_destroy(h)
  /\ owned' = owned \ {h}
  /\ UNCHANGED <<obj, m_handle, hkind, ptrs, adopted, aliased, usevars, ctorvars, nifvars>>

(***************************************************************************)
(* The ADT NIFs of c_src/namigator_nif.cpp.  Each validates the tile        *)
(* coordinates and then calls into the pathfind::Map of the resource.  The  *)
(* Map is a library outside this source: it is modelled by the tiles it     *)
(* has loaded and by the log of the calls made into it.                     *)
(***************************************************************************)

\* ADT grid bounds (0-63 for 64x64 grid).
ADT_MIN == 0
ADT_MAX == 63

\* The int64_t coordinates the NIFs are called with: on and next to both
\* bounds.
AdtInputs == {-1, 0, 63, 64}

\* The tiles the map data has an ADT for.
AdtTiles == {<<0, 0>>, <<0, 63>>, <<63, 63>>}

\* static_cast<int>(v) of an int64_t v: the value itself when it fits an
\* int, as every coordinate that passed the validation does.
static_cast_int(v) == v

\* (faulty variant: the upper bound of y is not checked)
validate_adt_coords_y_unbounded(x, y) ==
  ~(x < ADT_MIN \/ x > ADT_MAX \/ y < ADT_MIN)

\* validate_adt_coords(x, y) returns (TRUE) or throws std::invalid_argument
\* (FALSE).
validate_adt_coords(x, y) ==
  ~(x < ADT_MIN \/ x > ADT_MAX \/ y < ADT_MIN \/ y > ADT_MAX)

\* The std::invalid_argument leaves the NIF: nothing was called.
RaiseInvalidArgument ==
  /\ nif_result' = "raise: ADT coordinates must be between 0 and 63"
  /\ UNCHANGED <<adt_loaded, map_calls>>

\* The call map->op(static_cast<int>(x), static_cast<int>(y)) is made.
MapCalled(op, x, y) ==
  /\ Len(map_calls) < MaxCalls
  /\ map_calls' = Append(map_calls, <<op, static_cast_int(x), static_cast_int(y)>>)

Bool(b) == IF b THEN "true" ELSE "false"

map_load_adt_nif(x, y) ==
  /\ IF validate_adt_coords(x, y)
     THEN /\ MapCalled("LoadADT", x, y)
          /\ IF <<x, y>> \in AdtTiles
             THEN adt_loaded' = adt_loaded \cup {<<x, y>>}
             ELSE UNCHANGED adt_loaded
          /\ nif_result' = Bool(<<x, y>> \in AdtTiles)
     ELSE RaiseInvalidArgument
  /\ UNCHANGED <<usevars, ownvars, mapnewvars>>

map_unload_adt_nif(x, y) ==
  /\ IF validate_adt_coords(x, y)
     THEN /\ MapCalled("UnloadADT", x, y)
          /\ adt_loaded' = adt_loaded \ {<<x, y>>}
          /\ nif_result' = "ok"
     ELSE RaiseInvalidArgument
  /\ UNCHANGED <<usevars, ownvars, mapnewvars>>

map_has_adt_nif(x, y) ==
  /\ IF validate_adt_coords(x, y)
     THEN /\ MapCalled("HasADT", x, y)
          /\ UNCHANGED adt_loaded
          /\ nif_result' = Bool(<<x, y>> \in AdtTiles)
     ELSE RaiseInvalidArgument
  /\ UNCHANGED <<usevars, ownvars, mapnewvars>>

map_is_adt_loaded_nif(x, y) ==
  /\ IF validate_adt_coords(x, y)
     THEN /\ MapCalled("IsADTLoaded", x, y)
          /\ UNCHANGED adt_loaded
          /\ nif_result' = Bool(<<x, y>> \in adt_loaded)
     ELSE RaiseInvalidArgument
  /\ UNCHANGED <<usevars, ownvars, mapnewvars>>

(***************************************************************************)
(* map_new of c_src/namigator_nif.cpp and its two validators.  A            *)
(* std::string is a sequence of one-character strings.                      *)
(***************************************************************************)

\* The characters the arguments are made of: a letter, a digit, the two
\* other characters a map name may have, and the characters the validators
\* look for or reject.
PathChars == {"a", "_", ".", "/"}
NameChars == {"a", "Z", "7", "_", "-", ".", "/", "\\", " "}

\* The strings over `chars' of length n at most.
Strings(chars, n) == UNION {[1..k -> chars] : k \in 0..n}

\* s.find(sub) != std::string::npos: sub occurs in s.
Found(s, sub) ==
  \E i \in 1..(Len(s) - Len(sub) + 1) : SubSeq(s, i, i + Len(sub) - 1) = sub

\* std::isalnum in the "C" locale.
isalnum(c) ==
  c \in {"0", "1", "2", "3", "4", "5", "6", "7", "8", "9",
         "a", "b", "c", "d", "e", "f", "g", "h", "i", "j", "k", "l", "m",
         "n", "o", "p", "q", "r", "s", "t", "u", "v", "w", "x", "y", "z",
         "A", "B", "C", "D", "E", "F", "G", "H", "I", "J", "K", "L", "M",
         "N", "O", "P", "Q", "R", "S", "T", "U", "V", "W", "X", "Y", "Z"}

\* (faulty variant: the std::all_of over the characters is missing)
validate_map_name_traversal_only(name) ==
  IF name = <<>> THEN FALSE
  ELSE IF Found(name, <<".", ".">>) THEN FALSE
  ELSE IF Found(name, <<"/">>) THEN FALSE
  ELSE IF Found(name, <<"\\">>) THEN FALSE
  ELSE TRUE

validate_map_name(name) ==
  IF name = <<>> THEN FALSE
  ELSE IF Found(name, <<".", ".">>) THEN FALSE
  ELSE IF Found(name, <<"/">>) THEN FALSE
  ELSE IF Found(name, <<"\\">>) THEN FALSE
  ELSE \A i \in 1..Len(name) :
         isalnum(name[i]) \/ name[i] = "_" \/ name[i] = "-"

validate_data_path(path) ==
  IF path = <<>> THEN FALSE
  ELSE IF path[1] # "/" THEN FALSE
  ELSE IF Found(path, <<".", ".">>) THEN FALSE
  ELSE TRUE

\* map_new(data_path, map_name): the data path is validated first, then the
\* map name, then fine::make_resource<pathfind::Map>(data_path, map_name)
\* makes the resource.
map_new ==
  /\ nif_result = "none"
  /\ IF ~validate_data_path(data_path)
     THEN /\ nif_result' = "raise: invalid data path: must be an absolute path without '..' sequences"
          /\ UNCHANGED resource
     ELSE IF ~validate_map_name(map_name)
     THEN /\ nif_result' = "raise: invalid map name: must contain only alphanumeric characters, underscores, or hyphens"
          /\ UNCHANGED resource
     ELSE /\ resource' = <<data_path, map_name>>
          /\ nif_result' = "resource"
  /\ UNCHANGED <<data_path, map_name, adt_loaded, map_calls, usevars, ownvars>>

(***************************************************************************)
(* Specifications                                                          *)
(***************************************************************************)

\* A step of a context that follows no script.  Using a primitive leaves
\* the wrapper objects and their handles as they are.
Unscripted(A) == A /\ UNCHANGED script /\ UNCHANGED <<ownvars, nifvars>>

\* The next call of the script of context t is `op', and the context makes it.
Scripted(t, op, A) ==
  /\ script[t] # <<>>
  /\ Head(script[t]) = op
  /\ A
  /\ script' = [script EXCEPT ![t] = Tail(@)]
  /\ UNCHANGED <<ownvars, nifvars>>

\* The map resource holds no tile and no NIF was called.
InitMap ==
  /\ adt_loaded = {}
  /\ map_calls = <<>>
  /\ nif_result = "none"

\* map_new is not being called.
NoMapNew ==
  /\ data_path = <<>>
  /\ map_name = <<>>
  /\ resource = <<>>

\* No wrapper object exists yet and the runtime has handed out no handle.
InitWrappers ==
  /\ obj = [w \in Wrappers |-> "none"]
  /\ m_handle = [w \in Wrappers |-> 0]
  /\ hkind = [h \in Handles |-> "none"]
  /\ destroyed = [h \in Handles |-> 0]
  /\ owned = {}
  /\ ptrs = {}
  /\ adopted = {}
  /\ aliased = {}
  /\ err = [w \in Wrappers |-> "none"]
  /\ creates = 0
  /\ hname = [h \in Handles |-> <<>>]

InitOwnership == InitWrappers /\ InitMap /\ NoMapNew

\* Freshly constructed primitives: unlocked, nobody waiting.
InitPrimitives ==
  /\ pc = [t \in Threads |-> "idle"]
  /\ mutex = 0
  /\ rw_writer = 0
  /\ rw_readers = {}
  /\ tried = <<>>
  /\ cv_waiters = {}
  /\ flag = FALSE
  /\ signals = 0
  /\ broadcasts = 0
  /\ spurious = 0

InitNative == InitOwnership /\ InitPrimitives

InitLocks ==
  /\ InitNative
  /\ script = [t \in Threads |-> <<>>]

\* Contexts using one Mutex through lock / try_lock / unlock.
NextMutex ==
  \E t \in Threads :
    \/ Unscripted(Mutex_lock_call(t))
    \/ Unscripted(Mutex_lock(t))
    \/ Unscripted(Mutex_try_lock(t))
    \/ Unscripted(Mutex_unlock(t))

SpecMutex == InitLocks /\ [][NextMutex]_vars

\* Contexts using one SharedMutex.
NextSharedMutex ==
  \E t \in Threads :
    \/ Unscripted(SharedMutex_lock_shared_call(t))
    \/ Unscripted(SharedMutex_lock_shared(t))
    \/ Unscripted(SharedMutex_try_lock_shared(t))
    \/ Unscripted(SharedMutex_unlock_shared(t))
    \/ Unscripted(SharedMutex_lock_call(t))
    \/ Unscripted(SharedMutex_lock(t))
    \/ Unscripted(SharedMutex_try_lock(t))
    \/ Unscripted(SharedMutex_unlock(t))

SpecSharedMutex == InitLocks /\ [][NextSharedMutex]_vars

\* Contexts using one ConditionVariable with its paired Mutex: waiters of
\* both forms, notifiers, and writers of the protected state.
NextCond ==
  \E t \in Threads :
    \/ Unscripted(Mutex_lock_call(t))
    \/ Unscripted(Mutex_lock(t))
    \/ Unscripted(Mutex_unlock(t))
    \/ Unscripted(\E v \in BOOLEAN : SetFlag(t, v))
    \/ Unscripted(MayNotify /\ ConditionVariable_notify_one(t))
    \/ Unscripted(MayNotify /\ ConditionVariable_notify_all(t))
    \/ Unscripted(ConditionVariable_wait(t))
    \/ Unscripted(ConditionVariable_wait_return(t))
    \/ Unscripted(ConditionVariable_wait_pred(t))
    \/ Unscripted(ConditionVariable_wait_pred_test(t))
    \/ Unscripted(ConditionVariable_wait_pred_body(t))
    \/ Unscripted(ConditionVariable_wait_pred_body_return(t))
    \/ Unscripted(SpuriousWakeup(t))

SpecCond == InitLocks /\ [][NextCond]_vars

\* Wrappers constructed, their handles extracted, the extracted handles
\* destroyed by the caller, the wrappers destroyed.
NextExtract ==
  \/ \E w \in Wrappers :
       \/ Mutex_Mutex(w)
       \/ SharedMutex_SharedMutex(w)
       \/ ConditionVariable_ConditionVariable(w)
       \/ Mutex_release(w)
       \/ SharedMutex_release(w)
       \/ ConditionVariable_release(w)
       \/ Mutex_Deleter(w)
       \/ SharedMutex_Deleter(w)
       \/ ConditionVariable_Deleter(w)
  \/ \E h \in Handles : CallerDestroy(h)

SpecExtract == InitLocks /\ [][NextExtract]_vars

\* Every way the handles are passed around: construction, adoption of a
\* handle, the non-owning conversion, extraction, destruction.
NextOwnership ==
  \/ \E w \in Wrappers :
       \/ Mutex_Mutex(w)
       \/ SharedMutex_SharedMutex(w)
       \/ ConditionVariable_ConditionVariable(w)
       \/ \E p \in Handles \cup {0} : Mutex_from_handle(w, p)
       \/ \E p \in Handles \cup {0} : SharedMutex_from_handle(w, p)
       \/ \E p \in Handles \cup {0} : ConditionVariable_from_handle(w, p)
       \/ Mutex_get(w)
       \/ SharedMutex_get(w)
       \/ ConditionVariable_get(w)
       \/ Mutex_release(w)
       \/ SharedMutex_release(w)
       \/ ConditionVariable_release(w)
       \/ Mutex_Deleter(w)
       \/ SharedMutex_Deleter(w)
       \/ ConditionVariable_Deleter(w)
  \/ \E type \in {"ErlNifMutex", "ErlNifRWLock", "ErlNifCond"} : CallerCreate(type)
  \/ \E h \in Handles : CallerDestroy(h)

SpecOwnership == InitLocks /\ [][NextOwnership]_vars

\* A wrapper of class cls is there to be used: it holds a handle.
Usable(cls) == \E w \in Wrappers : obj[w] = cls /\ m_handle[w] # 0

\* No context is inside a call or holds anything.  Destroying a primitive
\* that is in use is undefined (sync.hpp leaves it to the caller), so the
\* wrappers are destroyed only then.
NoneInUse == \A t \in Threads : pc[t] = "idle"

\* The context that uses the wrappers while they are alive.
Users == {1}

\* The steps that leave a trace in the history (the try_lock log, the
\* notification and wakeup counts) are taken while the history is shorter
\* than MaxUses.
MayUse == Len(tried) + signals + broadcasts + spurious < MaxUses

\* The life of wrappers whose ownership is never extracted: construction (or
\* adoption of a handle the caller owns), use through every method, the
\* non-owning conversion, destruction.
NextLifecycle ==
  \/ \E w \in Wrappers :
       \/ Mutex_Mutex(w)
       \/ SharedMutex_SharedMutex(w)
       \/ ConditionVariable_ConditionVariable(w)
       \/ \E p \in owned : Mutex_from_handle(w, p)
       \/ Mutex_get(w)
       \/ SharedMutex_get(w)
       \/ ConditionVariable_get(w)
       \/ NoneInUse /\ Mutex_Deleter(w)
       \/ NoneInUse /\ SharedMutex_Deleter(w)
       \/ NoneInUse /\ ConditionVariable_Deleter(w)
  \/ CallerCreate("ErlNifMutex")
  \/ \E t \in Users :
       \/ Usable("Mutex") /\ Unscripted(Mutex_lock_call(t))
       \/ Usable("Mutex") /\ Unscripted(Mutex_lock(t))
       \/ Usable("Mutex") /\ Unscripted(Mutex_unlock(t))
       \/ Usable("Mutex") /\ MayUse /\ Unscripted(Mutex_try_lock(t))
       \/ Usable("SharedMutex") /\ Unscripted(SharedMutex_lock_shared_call(t))
       \/ Usable("SharedMutex") /\ Unscripted(SharedMutex_lock_shared(t))
       \/ Usable("SharedMutex") /\ Unscripted(SharedMutex_unlock_shared(t))
       \/ Usable("SharedMutex") /\ Unscripted(SharedMutex_lock_call(t))
       \/ Usable("SharedMutex") /\ Unscripted(SharedMutex_lock(t))
       \/ Usable("SharedMutex") /\ Unscripted(SharedMutex_unlock(t))
       \/ Usable("SharedMutex") /\ MayUse
            /\ Unscripted(SharedMutex_try_lock_shared(t))
       \/ Usable("SharedMutex") /\ MayUse
            /\ Unscripted(SharedMutex_try_lock(t))
       \/ Usable("ConditionVariable") /\ MayUse
            /\ Unscripted(ConditionVariable_notify_one(t))
       \/ Usable("ConditionVariable") /\ MayUse
            /\ Unscripted(ConditionVariable_notify_all(t))
       \/ Usable("ConditionVariable") /\ Unscripted(ConditionVariable_wait(t))
       \/ Usable("ConditionVariable") /\ MayUse /\ Unscripted(SpuriousWakeup(t))
       \/ Usable("ConditionVariable") /\ Unscripted(ConditionVariable_wait_return(t))

SpecLifecycle == InitLocks /\ [][NextLifecycle]_vars

\* The debug information the named constructors are called with.
Apps == {"namigator"}
Types == {"map", "cache"}
Instances == {<<>>, <<"0">>}
CondNames == {<<"namigator.cond">>}

\* Construction of wrappers, with and without a name, with the runtime
\* returning a handle or none; the wrappers that exist are used and
\* destroyed.
NextCreate ==
  \/ \E w \in Wrappers :
       \/ Mutex_Mutex(w)
       \/ SharedMutex_SharedMutex(w)
       \/ ConditionVariable_ConditionVariable(w)
       \/ \E app \in Apps, type \in Types, instance \in Instances :
            Mutex_named(w, app, type, instance)
       \/ \E app \in Apps, type \in Types, instance \in Instances :
            SharedMutex_named(w, app, type, instance)
       \/ \E name \in CondNames : ConditionVariable_named(w, name)
       \/ NoneInUse /\ Mutex_Deleter(w)
       \/ NoneInUse /\ SharedMutex_Deleter(w)
       \/ NoneInUse /\ ConditionVariable_Deleter(w)
  \/ \E t \in Users :
       \/ Usable("Mutex") /\ Unscripted(Mutex_lock_call(t))
       \/ Usable("Mutex") /\ Unscripted(Mutex_lock(t))
       \/ Usable("Mutex") /\ Unscripted(Mutex_unlock(t))
       \/ Usable("SharedMutex") /\ Unscripted(SharedMutex_lock_shared_call(t))
       \/ Usable("SharedMutex") /\ Unscripted(SharedMutex_lock_shared(t))
       \/ Usable("SharedMutex") /\ Unscripted(SharedMutex_unlock_shared(t))
       \/ Usable("ConditionVariable") /\ MayUse
            /\ Unscripted(ConditionVariable_notify_one(t))

SpecCreate == InitLocks /\ [][NextCreate]_vars

\* Contexts using a Mutex, a SharedMutex and a ConditionVariable side by
\* side, through every method.  The calls that leave a trace in the history
\* are made by the contexts in Users.  The protected state is left alone.
NextPrimitives ==
  \E t \in Threads :
    \/ Unscripted(Mutex_lock_call(t))
    \/ Unscripted(Mutex_lock(t))
    \/ Unscripted(t \in Users /\ MayUse /\ Mutex_try_lock(t))
    \/ Unscripted(Mutex_unlock(t))
    \/ Unscripted(SharedMutex_lock_shared_call(t))
    \/ Unscripted(SharedMutex_lock_shared(t))
    \/ Unscripted(t \in Users /\ MayUse /\ SharedMutex_try_lock_shared(t))
    \/ Unscripted(SharedMutex_unlock_shared(t))
    \/ Unscripted(SharedMutex_lock_call(t))
    \/ Unscripted(SharedMutex_lock(t))
    \/ Unscripted(t \in Users /\ MayUse /\ SharedMutex_try_lock(t))
    \/ Unscripted(SharedMutex_unlock(t))
    \/ Unscripted(t \in Users /\ MayUse /\ ConditionVariable_notify_one(t))
    \/ Unscripted(t \in Users /\ MayUse /\ ConditionVariable_notify_all(t))
    \/ Unscripted(ConditionVariable_wait(t))
    \/ Unscripted(ConditionVariable_wait_return(t))
    \/ Unscripted(ConditionVariable_wait_pred(t))
    \/ Unscripted(ConditionVariable_wait_pred_test(t))
    \/ Unscripted(ConditionVariable_wait_pred_body(t))
    \/ Unscripted(ConditionVariable_wait_pred_body_return(t))
    \/ Unscripted(MayUse /\ SpuriousWakeup(t))

SpecPrimitives == InitLocks /\ [][NextPrimitives]_vars

\* Scoped usage of the locks: every acquisition is a blocking one, and the
\* holder releases what it acquired.
NextScoped ==
  \E t \in Threads :
    \/ Unscripted(Mutex_lock_call(t))
    \/ Unscripted(Mutex_lock(t))
    \/ Unscripted(Mutex_unlock(t))
    \/ Unscripted(SharedMutex_lock_shared_call(t))
    \/ Unscripted(SharedMutex_lock_shared(t))
    \/ Unscripted(SharedMutex_unlock_shared(t))
    \/ Unscripted(SharedMutex_lock_call(t))
    \/ Unscripted(SharedMutex_lock(t))
    \/ Unscripted(SharedMutex_unlock(t))

\* The runtime hands a lock that can be acquired to one of the contexts
\* blocked on it.
MutexGranted == \E t \in Threads : Unscripted(Mutex_lock(t))
RWLockGranted ==
  \E t \in Threads :
    Unscripted(SharedMutex_lock_shared(t)) \/ Unscripted(SharedMutex_lock(t))

SpecScoped ==
  /\ InitLocks
  /\ [][NextScoped]_vars
  /\ WF_vars(MutexGranted)
  /\ WF_vars(RWLockGranted)

\* Calls of the four ADT NIFs on one map resource, with any coordinates.
NextAdt ==
  \E x \in AdtInputs, y \in AdtInputs :
    \/ map_load_adt_nif(x, y)
    \/ map_unload_adt_nif(x, y)
    \/ map_has_adt_nif(x, y)
    \/ map_is_adt_loaded_nif(x, y)

SpecAdt == InitLocks /\ [][NextAdt]_vars

\* map_new is about to be called with some data_path and some map_name.
InitMapNew ==
  /\ InitWrappers
  /\ InitPrimitives
  /\ script = [t \in Threads |-> <<>>]
  /\ InitMap
  /\ data_path \in Strings(PathChars, MaxPathLen)
  /\ map_name \in Strings(NameChars, MaxNameLen)
  /\ resource = <<>>

NextMapNew == map_new

SpecMapNew == InitMapNew /\ [][NextMapNew]_vars

(***************************************************************************)
(* Scenario C: one consumer waits for the flag with the guarded wait; the  *)
(* other contexts are producers, each setting the flag under the Mutex and *)
(* then calling notify_one, before or after its unlock.                    *)
(***************************************************************************)

Consumers == {1}
Producers == Threads \ Consumers

ConsumerScript == <<"lock", "wait_pred", "unlock">>
ProducerScripts == { <<"lock", "set", "unlock", "notify_one">>,
                     <<"lock", "set", "notify_one", "unlock">> }

InitScenarioC ==
  /\ InitNative
  /\ script \in [Threads -> {ConsumerScript} \cup ProducerScripts]
  /\ \A t \in Consumers : script[t] = ConsumerScript
  /\ \A t \in Producers : script[t] \in ProducerScripts

\* The steps context t takes by itself in the scenarios: its calls, and the
\* returns of the blocking calls it is in once they can return.
ScriptedStep(t) ==
  \/ Scripted(t, "lock", Mutex_lock_call(t))
  \/ Unscripted(Mutex_lock(t))
  \/ Scripted(t, "unlock", Mutex_unlock(t))
  \/ Scripted(t, "set", SetFlag(t, TRUE))
  \/ Scripted(t, "notify_one", ConditionVariable_notify_one(t))
  \/ Scripted(t, "notify_all", ConditionVariable_notify_all(t))
  \/ Scripted(t, "wait", ConditionVariable_wait(t))
  \/ Unscripted(ConditionVariable_wait_return(t))
  \/ Scripted(t, "wait_pred", ConditionVariable_wait_pred(t))
  \/ Unscripted(ConditionVariable_wait_pred_test(t))
  \/ Unscripted(ConditionVariable_wait_pred_body(t))
  \/ Unscripted(ConditionVariable_wait_pred_body_return(t))

NextScenarioC ==
  \E t \in Threads :
    \/ Scripted(t, "lock", Mutex_lock_call(t))
    \/ Unscripted(Mutex_lock(t))
    \/ Scripted(t, "unlock", Mutex_unlock(t))
    \/ Scripted(t, "set", SetFlag(t, TRUE))
    \/ Scripted(t, "notify_one", ConditionVariable_notify_one(t))
    \/ Scripted(t, "wait_pred", ConditionVariable_wait_pred(t))
    \/ Unscripted(ConditionVariable_wait_pred_test(t))
    \/ Unscripted(ConditionVariable_wait_pred_body(t))
    \/ Unscripted(ConditionVariable_wait_pred_body_return(t))
    \/ Unscripted(SpuriousWakeup(t))

\* Threads are scheduled preemptively: a context that can take a step keeps
\* being able to until it takes it, and then does.  Spurious wakeups are
\* allowed, never promised.
SpecScenarioC ==
  /\ InitScenarioC
  /\ [][NextScenarioC]_vars
  /\ \A t \in Threads : WF_vars(ScriptedStep(t))

(***************************************************************************)
(* Notification scenario: context 1 makes up to MaxNotify notify calls;    *)
(* every other context locks the Mutex, calls the raw wait(lock), unlocks. *)
(***************************************************************************)

Notifiers == {1}
Waiters == Threads \ Notifiers

RECURSIVE NotifyScripts(_)
NotifyScripts(n) ==
  IF n = 0 THEN { <<>> }
  ELSE LET shorter == NotifyScripts(n - 1)
       IN shorter \cup { Append(q, c) : q \in shorter, c \in {"notify_one", "notify_all"} }

WaiterScript == <<"lock", "wait", "unlock">>

InitNotify ==
  /\ InitNative
  /\ script \in [Threads -> {WaiterScript} \cup NotifyScripts(MaxNotify)]
  /\ \A t \in Notifiers : script[t] \in NotifyScripts(MaxNotify)
  /\ \A t \in Waiters : script[t] = WaiterScript

NextNotify ==
  \E t \in Threads :
    \/ Scripted(t, "lock", Mutex_lock_call(t))
    \/ Unscripted(Mutex_lock(t))
    \/ Scripted(t, "unlock", Mutex_unlock(t))
    \/ Scripted(t, "notify_one", ConditionVariable_notify_one(t))
    \/ Scripted(t, "notify_all", ConditionVariable_notify_all(t))
    \/ Scripted(t, "wait", ConditionVariable_wait(t))
    \/ Unscripted(ConditionVariable_wait_return(t))
    \/ Unscripted(SpuriousWakeup(t))

SpecNotify ==
  /\ InitNotify
  /\ [][NextNotify]_vars
  /\ \A t \in Threads : WF_vars(ScriptedStep(t))

(***************************************************************************)
(* Properties                                                              *)
(***************************************************************************)

\* The contexts between an acquire of the Mutex returning and their unlock().
Inside == {t \in Threads : pc[t] \in Holding}

\* The last call logged in `tried' by this step, when the step is a try_lock.
Tries(op) == Len(tried') = Len(tried) + 1 /\ tried'[Len(tried')].op = op
LastTried == tried'[Len(tried')]

\* C1: Mutex mutual exclusion.  Whatever the contexts do with lock(),
\* try_lock() and unlock(), at most one of them is in the locked region, and
\* it is the one the native mutex is locked by.
C1_MutualExclusion ==
  /\ Cardinality(Inside) <= 1
  /\ \A t \in Inside : mutex = t

\* C1 witness: a context got the Mutex by try_lock() while another is
\* blocked in lock().
C1_Witness ==
  \E t, u \in Threads :
    /\ t # u
    /\ pc[t] = "holds_mutex"
    /\ pc[u] = "Mutex::lock"
    /\ Len(tried) > 0
    /\ tried[Len(tried)] = Logged(t, "Mutex::try_lock", TRUE)

\* The contexts holding shared, and exclusive, access of the SharedMutex.
Readers == {t \in Threads : pc[t] = "holds_shared"}
Writers == {t \in Threads : pc[t] = "holds_exclusive"}

\* C2: SharedMutex holder invariant.  Either nobody holds the lock, or
\* readers only, or exactly one writer and no reader; the native lock's
\* holders are the contexts that believe they hold it.
C2_HolderInvariant ==
  /\ \/ Readers = {} /\ Writers = {}
     \/ Readers # {} /\ Writers = {}
     \/ Readers = {} /\ Cardinality(Writers) = 1
  /\ rw_readers = Readers
  /\ Writers = IF rw_writer = 0 THEN {} ELSE {rw_writer}

\* C2 witness: two contexts hold shared access at once (one through
\* lock_shared(), one through try_lock_shared()), with no writer.
C2_Witness ==
  \E t, u \in Threads :
    /\ t # u
    /\ {t, u} \subseteq Readers
    /\ Writers = {}
    /\ Len(tried) > 0
    /\ tried[Len(tried)] = Logged(u, "SharedMutex::try_lock_shared", TRUE)
    /\ \E w \in Threads : pc[w] = "SharedMutex::lock"

\* C3: guarded wait postcondition.  wait(lock, pred) has returned only in
\* states where the caller holds the Mutex and pred() is true.
C3_GuardedWaitPost ==
  \A t \in Threads :
    pc[t] = "wait_pred:returned" => mutex = t /\ pred

\* C3 witness: a guarded wait has returned after a spurious wakeup and
\* notifications took place, while another guarded waiter is still blocked.
C3_Witness ==
  \E t, u \in Threads :
    /\ pc[t] = "wait_pred:returned"
    /\ pc[u] = "wait_pred:blocked"
    /\ spurious > 0
    /\ signals > 0

\* C4: producer/consumer, no lost wakeup.  In scenario C the consumer's
\* wait(lock, pred) eventually returns, the consumer holding the Mutex and
\* the flag true, whether it blocked before the flag was set or tested the
\* predicate after.
C4_ConsumerReturns ==
  \A c \in Consumers : <>(pc[c] = "wait_pred:returned" /\ mutex = c /\ flag)

\* C4 witness: the consumer blocked while the flag was false and has been
\* woken by a producer's notify_one (there was no spurious wakeup), the flag
\* now true.
C4_Witness ==
  \E c \in Consumers :
    /\ pc[c] = "wait_pred:woken"
    /\ flag
    /\ signals > 0
    /\ spurious = 0

\* The contexts this step wakes.
WokenNow == cv_waiters \ cv_waiters'

\* C7 as claimed: a blocked context stops being blocked only by a
\* notification; notify_one wakes exactly one waiter, notify_all wakes all.
C7_OnlyNotifyWakes ==
  [][/\ signals' # signals /\ cv_waiters # {} => Cardinality(WokenNow) = 1
     /\ broadcasts' # broadcasts => WokenNow = cv_waiters /\ cv_waiters' = {}
     /\ WokenNow # {} => signals' # signals \/ broadcasts' # broadcasts]_vars

\* C7 as amended: notify_one wakes exactly one of the blocked contexts and
\* notify_all all of them; the others stay blocked until a further
\* notification or a spurious wakeup, which wakes one; a woken context
\* eventually proceeds (its wait returns) and a context not woken does not.
C7_NotifyCardinality ==
  /\ [][/\ signals' # signals /\ cv_waiters # {} => Cardinality(WokenNow) = 1
        /\ broadcasts' # broadcasts => WokenNow = cv_waiters /\ cv_waiters' = {}
        /\ WokenNow # {} =>
             \/ signals' # signals
             \/ broadcasts' # broadcasts
             \/ spurious' # spurious /\ Cardinality(WokenNow) = 1
        /\ \A t \in WokenNow : pc'[t] = "wait:woken"
        /\ \A t \in Threads :
             pc[t] = "wait:blocked" /\ pc'[t] # "wait:blocked" => t \in WokenNow]_vars
  /\ \A t \in Threads : (pc[t] = "wait:woken") ~> (pc[t] = "wait:returned")

\* C7 witness: both waiters were blocked, one notify_one was made and
\* nothing else: one waiter is woken, the other still blocked.
C7_Witness ==
  \E t, u \in Waiters :
    /\ pc[t] = "wait:woken"
    /\ pc[u] = "wait:blocked"
    /\ signals = 1
    /\ broadcasts = 0
    /\ spurious = 0

\* C5: Mutex::try_lock().  Each call returns false exactly when lock()
\* would have blocked at that moment; on true the caller holds the Mutex,
\* on false the Mutex is left as it was.  Hence of two contexts racing for a
\* free Mutex exactly one gets true.
C5_TryLock ==
  /\ [][Tries("Mutex::try_lock") =>
         /\ LastTried.ok = ~enif_mutex_lock_blocks
         /\ LastTried.ok => mutex' = LastTried.ctx /\ pc'[LastTried.ctx] \in Holding
         /\ ~LastTried.ok => mutex' = mutex /\ pc'[LastTried.ctx] = "idle"]_vars
  /\ [](Cardinality(Inside) <= 1)

\* C5 witness (scenario A): two contexts raced for the free Mutex, one got
\* true and the other false; the winner unlocked and the loser's next
\* try_lock() returned true.
C5_Witness ==
  \E a, b \in Threads :
    /\ a # b
    /\ tried = << Logged(a, "Mutex::try_lock", TRUE),
                  Logged(b, "Mutex::try_lock", FALSE),
                  Logged(b, "Mutex::try_lock", TRUE) >>
    /\ pc[b] = "holds_mutex"

\* C6: SharedMutex non-blocking acquires.  try_lock_shared() returns false
\* exactly when lock_shared() would have blocked; try_lock() returns false
\* while a shared (or exclusive) holder remains and true once there is none;
\* lock_shared() returns without blocking whenever no writer holds the lock,
\* other readers or not.
C6_SharedTryLock ==
  /\ [][Tries("SharedMutex::try_lock_shared") =>
         /\ LastTried.ok = ~enif_rwlock_rlock_blocks
         /\ LastTried.ok = (Writers = {})
         /\ LastTried.ok => LastTried.ctx \in rw_readers']_vars
  /\ [][Tries("SharedMutex::try_lock") =>
         /\ LastTried.ok = ~enif_rwlock_rwlock_blocks
         /\ LastTried.ok = (Readers = {} /\ Writers = {})
         /\ LastTried.ok => rw_writer' = LastTried.ctx
         /\ ~LastTried.ok => rw_writer' = rw_writer /\ rw_readers' = rw_readers]_vars
  /\ [](\A t \in Threads :
          (pc[t] = "SharedMutex::lock_shared" /\ Writers = {})
             => ENABLED SharedMutex_lock_shared(t))

\* C6 witness (scenario B): two contexts hold shared access and a third
\* context's exclusive try_lock() has just returned false.
C6_Witness ==
  \E r1, r2, w \in Threads :
    /\ Cardinality({r1, r2, w}) = 3
    /\ Readers = {r1, r2}
    /\ tried = << Logged(w, "SharedMutex::try_lock", FALSE) >>

\* C8: raw wait protocol.  Entering wait(lock) unlocks the Mutex and makes
\* the caller a waiter in the same step; a blocked waiter does not hold the
\* Mutex (others can lock it); when wait(lock) has returned the caller holds
\* the Mutex again.  Nothing is said about the protected state.
C8_RawWait ==
  /\ [](\A t \in Threads :
          /\ pc[t] = "wait:blocked" => t \in cv_waiters /\ mutex # t
          /\ pc[t] = "wait:woken" => t \notin cv_waiters /\ mutex # t
          /\ pc[t] = "wait:returned" => mutex = t)
  /\ [][\A t \in Threads :
          (pc[t] \in Holding /\ pc'[t] = "wait:blocked")
             => mutex = t /\ mutex' = 0 /\ t \in cv_waiters']_vars
  /\ [][\A t \in Threads :
          (pc[t] = "wait:woken" /\ pc'[t] # "wait:woken")
             => mutex = 0 /\ mutex' = t /\ pc'[t] = "wait:returned"]_vars

\* C8 witness: one context is blocked in wait(lock) while the Mutex is held
\* by another, whose own wait(lock) returned with the condition still false.
C8_Witness ==
  \E t, u \in Threads :
    /\ t # u
    /\ pc[t] = "wait:blocked"
    /\ pc[u] = "wait:returned"
    /\ mutex = u
    /\ ~flag

\* The owners of handle h: the live wrappers whose m_handle is h, and the
\* caller (written 0) when it is responsible for h.
Owners(h) ==
  {w \in Wrappers : Live(w) /\ m_handle[w] = h} \cup (IF h \in owned THEN {0} ELSE {})

\* C9: ownership extraction.  An extracted handle is held by no wrapper and
\* stays undestroyed until the caller destroys it, also when the wrapper it
\* came from is destroyed; extraction itself destroys nothing and leaves the
\* wrapper's pointer null; no handle is destroyed twice.
C9_Extraction ==
  /\ [](\A h \in Handles :
          /\ destroyed[h] <= 1
          /\ h \in owned => destroyed[h] = 0 /\ \A w \in Wrappers : m_handle[w] # h)
  /\ [][\A h \in owned' \ owned :
          /\ destroyed' = destroyed
          /\ \E w \in Wrappers :
               Live(w) /\ m_handle[w] = h /\ m_handle'[w] = 0 /\ obj'[w] = obj[w]]_vars
  /\ [][\A w \in Wrappers :
          (Live(w) /\ obj'[w] = "destroyed" /\ m_handle[w] = 0)
             => destroyed' = destroyed]_vars

\* C9 witness: every wrapper has been destroyed, one handle that was
\* extracted is still the caller's and undestroyed, and another handle has
\* been destroyed once.
C9_Witness ==
  /\ \A w \in Wrappers : obj[w] = "destroyed"
  /\ \E h \in owned : destroyed[h] = 0
  /\ \E h \in Handles \ owned : destroyed[h] = 1

Allocated(h) == hkind[h] # "none"

\* Handle h has exactly one owner from its creation to its destruction, is
\* destroyed at most once and has no owner afterwards.
SingleOwnerOf(h) ==
  /\ Cardinality(Owners(h)) <= 1
  /\ destroyed[h] <= 1
  /\ (Allocated(h) /\ destroyed[h] = 0) => Cardinality(Owners(h)) = 1
  /\ (~Allocated(h) \/ destroyed[h] > 0) => Owners(h) = {}

\* C10 as claimed: whatever sequence of construction, adoption, non-owning
\* conversion, extraction and destruction is made, every handle has a
\* single owner.
C10_SingleOwner == \A h \in Handles : SingleOwnerOf(h)

\* C10 as amended: every handle that no wrapper adopted while the caller did
\* not own it (a handle got by the non-owning conversion, or one already
\* given away or destroyed) has a single owner.
C10_SingleOwnerUnlessAliased == \A h \in Handles \ aliased : SingleOwnerOf(h)

\* C10 witness: a wrapper owns a handle it adopted from the caller, who had
\* got hold of it by the non-owning conversion or extraction of another
\* wrapper, since destroyed; the handle was never aliased.
C10_Witness ==
  \E w \in Wrappers, h \in adopted \ aliased :
    /\ Live(w)
    /\ m_handle[w] = h
    /\ destroyed[h] = 0
    /\ \E v \in Wrappers : obj[v] = "destroyed"

\* C11: a wrapper whose ownership is never extracted destroys its native
\* handle exactly once, at its own destruction and not earlier: the handle
\* of a live wrapper is undestroyed, the destruction of the wrapper is the
\* one step that destroys it, and the non-owning conversion and every lock,
\* unlock, try_lock, wait and notify step leave the wrappers, their handles
\* and the destruction counts as they are.
C11_HandleLifecycle ==
  /\ [](\A w \in Wrappers :
          Live(w) /\ m_handle[w] # 0 => destroyed[m_handle[w]] = 0)
  /\ [](\A h \in Handles : destroyed[h] <= 1)
  /\ [][\A w \in Wrappers :
          Live(w) /\ m_handle[w] # 0 /\ obj'[w] = "destroyed"
            => destroyed' = [destroyed EXCEPT ![m_handle[w]] = 1]]_vars
  /\ [][destroyed' # destroyed
          => \E w \in Wrappers : Live(w) /\ obj'[w] = "destroyed"]_vars
  /\ [][usevars' # usevars \/ (ptrs' # ptrs /\ hkind' = hkind)
          => UNCHANGED <<obj, m_handle, destroyed, owned>>]_vars

\* A wrapper was used, converted to its handle, and destroyed with it.
C11_Witness ==
  \E w \in Wrappers :
    /\ obj[w] = "destroyed"
    /\ tried # <<>>
    /\ \E h \in ptrs : destroyed[h] = 1 /\ h \notin adopted

\* C12: whichever constructor completed, the handle of the wrapper is
\* non-null in every state of the lifetime of the object until ownership is
\* extracted: a wrapper comes to life with a non-null handle, and the handle
\* of a live wrapper becomes null only by the extraction, which hands it to
\* the caller.
C12_NonNullHandle ==
  /\ [][\A w \in Wrappers : ~Live(w) /\ Live(w)' => m_handle'[w] # 0]_vars
  /\ [][\A w \in Wrappers :
          Live(w) /\ Live(w)' /\ m_handle[w] # 0 /\ m_handle'[w] = 0
            => m_handle[w] \in owned']_vars

\* C13: when the runtime returns no handle, the unnamed and the named
\* constructors report the error in the step of their one enif_*_create
\* call (no second call is made), no wrapper object exists afterwards, and
\* nothing is locked, notified or destroyed by that step; so every wrapper
\* that exists holds a handle, and only those are used and destroyed.
C13_CreationFailure ==
  /\ [](\A w \in Wrappers :
          err[w] # "none" => obj[w] = "none" /\ m_handle[w] = 0)
  /\ [](\A w \in Wrappers : Live(w) => m_handle[w] # 0)
  /\ [][creates' # creates /\ hkind' = hkind
          => /\ creates' = creates + 1
             /\ \E w \in Wrappers :
                  /\ err[w] = "none"
                  /\ err'[w] \in {CreateError(cls) :
                        cls \in {"Mutex", "SharedMutex", "ConditionVariable"}}
             /\ UNCHANGED <<obj, m_handle, destroyed, hname, usevars>>]_vars
  /\ [][err' # err => creates' = creates + 1 /\ hkind' = hkind]_vars

\* A named constructor got a handle and another constructor got none.
C13_Witness ==
  /\ \E w \in Wrappers : err[w] = "failed to create mutex"
  /\ \E w \in Wrappers : Live(w) /\ hname[m_handle[w]] # <<>>

\* The places where a context is suspended inside a call.
Suspended ==
  {"Mutex::lock", "SharedMutex::lock_shared", "SharedMutex::lock",
   "wait:blocked", "wait:woken", "wait_pred:blocked", "wait_pred:woken"}

\* C14: in every reachable lock and condition state try_lock(),
\* try_lock_shared(), notify_one() and notify_all() can be completed by a
\* context that may call them, they complete in one step that leaves the
\* caller not suspended, and only lock(), lock_shared() and the two wait
\* forms take a context into a suspended place.
C14_NonBlocking ==
  /\ [](\A t \in Threads :
          /\ pc[t] = "idle" /\ Len(tried) < MaxRWTries
               => /\ ENABLED Mutex_try_lock(t)
                  /\ ENABLED SharedMutex_try_lock_shared(t)
                  /\ ENABLED SharedMutex_try_lock(t)
          /\ CanCall(t)
               => /\ ENABLED ConditionVariable_notify_one(t)
                  /\ ENABLED ConditionVariable_notify_all(t))
  /\ [][\A t \in Threads :
          \/ Mutex_try_lock(t)
          \/ SharedMutex_try_lock_shared(t)
          \/ SharedMutex_try_lock(t)
          \/ ConditionVariable_notify_one(t)
          \/ ConditionVariable_notify_all(t)
          => pc'[t] \notin Suspended]_vars
  /\ [][\A t \in Threads :
          pc[t] \notin Suspended /\ pc'[t] \in Suspended
            => \/ Mutex_lock_call(t)
               \/ SharedMutex_lock_shared_call(t)
               \/ SharedMutex_lock_call(t)
               \/ ConditionVariable_wait(t)
               \/ ConditionVariable_wait_pred_body(t)]_vars

\* try_lock() has returned false to an idle context while another context
\* holds the Mutex and a third is blocked in a wait.
C14_Witness ==
  /\ tried # <<>>
  /\ tried[1].op = "Mutex::try_lock"
  /\ ~tried[1].ok
  /\ pc[tried[1].ctx] = "idle"
  /\ mutex \notin {0, tried[1].ctx}
  /\ cv_waiters # {}

\* The step is a notify_one or notify_all call.
Notifies == signals' + broadcasts' # signals + broadcasts

\* C15: a notify_one() or notify_all() on a ConditionVariable with no waiter
\* changes neither the waiters, nor the Mutex, nor where any context is, nor
\* the protected state; and it is not remembered: a raw wait(lock) started
\* afterwards blocks all the same, and a blocked waiter is woken only by a
\* step that is itself a notification or a spurious wakeup.
C15_NotifyWithoutWaiters ==
  /\ [][Notifies /\ cv_waiters = {}
          => UNCHANGED <<cv_waiters, mutex, pc, flag, rwvars>>]_vars
  /\ [][\A t \in Threads :
          ConditionVariable_wait(t)
            => pc'[t] = "wait:blocked" /\ t \in cv_waiters' /\ mutex' = 0]_vars
  /\ [][\A t \in Threads :
          pc[t] = "wait:blocked" /\ pc'[t] # "wait:blocked"
            => Notifies \/ spurious' # spurious]_vars

\* All the notifications were made and no spurious wakeup happened, and yet
\* every context is blocked in a raw wait.
C15_Witness ==
  /\ signals + broadcasts = MaxNotify
  /\ spurious = 0
  /\ \A t \in Threads : pc[t] = "wait:blocked"

\* The contexts blocked in Mutex::lock(), and in SharedMutex::lock_shared()
\* or SharedMutex::lock().
BlockedOnMutex == {t \in Threads : pc[t] = "Mutex::lock"}
BlockedOnRWLock ==
  {t \in Threads : pc[t] \in {"SharedMutex::lock_shared", "SharedMutex::lock"}}

\* Some context can take a step that acquires or releases a lock.
LockProgress ==
  \E t \in Threads :
    \/ Mutex_lock(t) \/ Mutex_unlock(t)
    \/ SharedMutex_lock_shared(t) \/ SharedMutex_unlock_shared(t)
    \/ SharedMutex_lock(t) \/ SharedMutex_unlock(t)

\* C17: a context blocked in a blocking acquire can return as soon as no
\* conflicting holder exists; under scoped usage no state with a blocked
\* context is a deadlock; a lock that is free is acquired by a context that
\* was blocked on it; and whenever a lock is free with at least one context
\* blocked on it, eventually some context holds it.
C17_BlockingProgress ==
  /\ [](\A t \in Threads :
          /\ pc[t] = "Mutex::lock" /\ Inside = {} => ENABLED Mutex_lock(t)
          /\ pc[t] = "SharedMutex::lock_shared" /\ Writers = {}
               => ENABLED SharedMutex_lock_shared(t)
          /\ pc[t] = "SharedMutex::lock" /\ Readers \cup Writers = {}
               => ENABLED SharedMutex_lock(t))
  /\ [](BlockedOnMutex \cup BlockedOnRWLock # {} => ENABLED LockProgress)
  /\ [][\A t \in Threads :
          /\ t \notin Inside /\ t \in Inside' => t \in BlockedOnMutex
          /\ t \notin Readers \cup Writers /\ t \in Readers' \cup Writers'
               => t \in BlockedOnRWLock]_vars
  /\ (Inside = {} /\ BlockedOnMutex # {}) ~> (Inside # {})
  /\ (Readers \cup Writers = {} /\ BlockedOnRWLock # {})
       ~> (Readers \cup Writers # {})

\* A context is blocked on the Mutex another context holds, and a context
\* is blocked on the SharedMutex.
C17_Witness ==
  /\ BlockedOnMutex # {} /\ Inside # {}
  /\ BlockedOnRWLock # {}

\* What a step leaves alone when it neither blocks, nor releases the Mutex,
\* nor consumes or produces a notification.
NothingReleased == UNCHANGED <<mutex, cv_waiters, signals, broadcasts, spurious>>

\* C18: the guarded wait evaluates the predicate before any blocking; when
\* the predicate is true it returns without releasing the Mutex, blocking
\* or consuming a notification; when it is false it performs exactly one raw
\* wait, and after each wakeup it evaluates the predicate again.
C18_GuardedWaitLoop ==
  /\ [][\A t \in Threads :
          ConditionVariable_wait_pred(t)
            => pc'[t] = "wait_pred:while" /\ NothingReleased]_vars
  /\ [][\A t \in Threads :
          pc[t] = "wait_pred:while" /\ pc'[t] # pc[t]
            => /\ pc'[t] = IF pred THEN "wait_pred:returned"
                                   ELSE "wait_pred:enif_cond_wait"
               /\ NothingReleased]_vars
  /\ [][\A t \in Threads :
          pc[t] = "wait_pred:enif_cond_wait" /\ pc'[t] # pc[t]
            => pc'[t] = "wait_pred:blocked" /\ mutex' = 0]_vars
  /\ [][\A t \in Threads :
          pc[t] # "wait_pred:blocked" /\ pc'[t] = "wait_pred:blocked"
            => pc[t] = "wait_pred:enif_cond_wait"]_vars
  /\ [][\A t \in Threads :
          pc[t] = "wait_pred:woken" /\ pc'[t] # pc[t]
            => pc'[t] = "wait_pred:while"]_vars
  /\ [][\A t \in Threads :
          pc[t] # "wait_pred:returned" /\ pc'[t] = "wait_pred:returned"
            => pc[t] = "wait_pred:while" /\ pred]_vars

\* With no notification and no wakeup at all, one guarded wait has
\* returned at once while another, which found the predicate false, is
\* blocked in its raw wait.
C18_Witness ==
  /\ signals + broadcasts + spurious = 0
  /\ \E t, u \in Threads :
       pc[t] = "wait_pred:returned" /\ pc[u] = "wait_pred:blocked"

\* The places of the guarded wait where the predicate is being evaluated or
\* has just been found true.
Evaluating == {"wait_pred:while", "wait_pred:enif_cond_wait", "wait_pred:returned"}

\* C19: every evaluation of the predicate inside the guarded wait is made
\* by a context that holds the Mutex, and the protected state is not written
\* during an evaluation or between the last evaluation and the return,
\* except by the returned context itself.
C19_PredicateUnderLock ==
  /\ [](\A t \in Threads : pc[t] \in Evaluating => mutex = t)
  /\ [][\A t \in Threads :
          ConditionVariable_wait_pred_test(t) => mutex = t /\ mutex' = t]_vars
  /\ [][\A t \in Threads :
          pc[t] \in Evaluating /\ flag' # flag
            => pc[t] = "wait_pred:returned" /\ pc'[t] = "holds_mutex"]_vars

\* A guarded wait evaluates the predicate again after a wakeup while a
\* writer is blocked on the Mutex.
C19_Witness ==
  /\ signals + broadcasts + spurious > 0
  /\ \E t, u \in Threads :
       pc[t] = "wait_pred:while" /\ pc[u] = "Mutex::lock"

\* The coordinates are those of a tile of the 64x64 grid.
OnGrid(x, y) == 0 <= x /\ x <= 63 /\ 0 <= y /\ y <= 63

\* What a NIF call with (x, y) that makes the map call `op' does, and what
\* one that raises does.
CallsMap(op, x, y) ==
  /\ map_calls' = Append(map_calls, <<op, x, y>>)
  /\ nif_result' \in {"true", "false", "ok"}
Rejects ==
  /\ nif_result' \notin {"true", "false", "ok", "none"}
  /\ UNCHANGED <<adt_loaded, map_calls>>

\* C20: for all coordinates (x, y), each of the four ADT NIFs calls the
\* underlying map operation, with those coordinates, if and only if
\* 0 <= x <= 63 and 0 <= y <= 63; otherwise it raises the invalid-argument
\* error and the map is neither queried nor modified.
C20_AdtCoordinateGuard ==
  [][\A x \in AdtInputs, y \in AdtInputs :
       /\ map_load_adt_nif(x, y)
            => IF OnGrid(x, y) THEN CallsMap("LoadADT", x, y) ELSE Rejects
       /\ map_unload_adt_nif(x, y)
            => IF OnGrid(x, y) THEN CallsMap("UnloadADT", x, y) ELSE Rejects
       /\ map_has_adt_nif(x, y)
            => IF OnGrid(x, y) THEN CallsMap("HasADT", x, y) ELSE Rejects
       /\ map_is_adt_loaded_nif(x, y)
            => IF OnGrid(x, y) THEN CallsMap("IsADTLoaded", x, y) ELSE Rejects]_vars

\* A tile on the edge of the grid was loaded, and the last call was
\* rejected.
C20_Witness ==
  /\ <<63, 63>> \in adt_loaded
  /\ map_calls # <<>>
  /\ nif_result \notin {"true", "false", "ok", "none"}

\* The data path is non-empty, starts with '/' and has no ".." in it.
PathAccepted ==
  /\ data_path # <<>>
  /\ Head(data_path) = "/"
  /\ \A i \in 1..(Len(data_path) - 1) :
       ~(data_path[i] = "." /\ data_path[i + 1] = ".")

\* The map name is non-empty and made of alphanumeric characters, '_' and
\* '-' only.
NameAccepted ==
  /\ map_name # <<>>
  /\ \A i \in DOMAIN map_name : isalnum(map_name[i]) \/ map_name[i] \in {"_", "-"}

\* C21: map_new makes a Map resource, of the data path and the map name it
\* was given, if and only if the data path is non-empty, starts with '/' and
\* contains no "..", and the map name is non-empty and consists only of
\* alphanumeric characters, '_' and '-'; otherwise it raises an error and no
\* resource is made, and the error is the one about the data path whenever
\* the data path is invalid.
C21_MapNewValidation ==
  /\ nif_result = "none" => resource = <<>>
  /\ nif_result # "none" =>
       /\ resource # <<>> <=> PathAccepted /\ NameAccepted
       /\ resource # <<>> =>
            resource = <<data_path, map_name>> /\ nif_result = "resource"
       /\ ~PathAccepted =>
            nif_result = "raise: invalid data path: must be an absolute path without '..' sequences"
       /\ PathAccepted /\ ~NameAccepted =>
            nif_result = "raise: invalid map name: must contain only alphanumeric characters, underscores, or hyphens"

\* Both arguments were invalid (a data path that starts with '/' but has
\* ".." in it, a map name with a character that is not allowed) and the
\* call has raised the error about the data path.
C21_Witness ==
  /\ nif_result \notin {"none", "resource"}
  /\ data_path = <<"/", ".", ".">>
  /\ map_name # <<>>
  /\ ~NameAccepted

====
